---- MODULE Spec2Model ----
(***************************************************************************)
(* Model of the Telegram MTProto bridge service:                           *)
(*   - TelegramClientService (session lifecycle, join / leave commands),   *)
(*   - TelegramAppService (ingestion handler, command gateway),            *)
(*   - EventsPublisher (fire-and-forget emit).                             *)
(* The external network (GramJS client) and the broker are environments:   *)
(* every round trip draws its outcome from the set of outcomes the         *)
(* library can produce.                                                    *)
(***************************************************************************)
EXTENDS Integers, Sequences, FiniteSets, TLC

VARIABLES
    \* ---- ingestion pipeline (TelegramAppService) ----
    seen,          \* InMemoryProcessedMessagesRepo.seen : set of dedup keys
    bound,         \* boundNewMessageHandler is set
    transportHas,  \* the transport holds the callback (client.addEventHandler)
    listeners,     \* TelegramClientService.newMessageHandlers has the handler
    delivered,     \* events the transport has passed to the callback, in order
    outcomes,      \* per delivered event: "published" | "dropped" | "crashed"
    published,     \* emitNewPost calls, in order (payloads)
    escaped,       \* faults that left the callback towards the transport
    errorLog,      \* number of 'NewMessage handler crashed' log lines
    emitSaw,       \* per emitNewPost call: the store held the key at the call
    \* ---- session lifecycle (TelegramClientService, main.ts) ----
    cfgSession,    \* config TG_SESSION_STRING: None (unset) or Some(string)
    client,        \* this.client has been created
    pcInit,        \* onModuleInit: "idle" | "connecting" | "starting" | "done" | "failed"
    transport,     \* the connection: "down" | "up" | "closed"
    attempts,      \* failed connection attempts so far
    interactive,   \* the interactive credential exchange was performed
    surfaced,      \* session tokens printed for the operator, in order
    state,         \* session state of the manager
    serving,       \* the command channel is listening
    aborted,       \* process startup was aborted
    pcDestroy,     \* onModuleDestroy: "idle" | "disconnecting" | "done"
    discOutcome,   \* how client.disconnect() ended: "none" | "ok" | "throws"
    destroyResult, \* what onModuleDestroy reported: "none" | "ok" | "error"
    \* ---- command gateway (subscribe / unsubscribe) ----
    call,          \* the command in flight (pc = "idle" when there is none)
    lastCall,      \* the last completed command with what the network did
    \* ---- host process (main.ts) ----
    signalled,     \* a shutdown signal has reached the process
    parked,        \* a second command, suspended at its await in the event loop
    \* ---- broker behind EventsPublisher's ClientProxy ----
    brokerUp,      \* the broker can be reached
    outbox         \* per emit call: the broker's state then, the message's fate

ingestVars == <<seen, bound, transportHas, listeners, delivered, outcomes,
                published, escaped, errorLog, emitSaw>>

lifeVars == <<cfgSession, client, pcInit, transport, attempts, interactive,
              surfaced, state, serving, aborted, pcDestroy, discOutcome,
              destroyResult>>

cmdVars == <<call, lastCall>>

hostVars == <<signalled, parked>>

pubVars == <<brokerUp, outbox>>

vars == <<ingestVars, lifeVars, cmdVars, hostVars, pubVars>>

-----------------------------------------------------------------------------
\* Optional values (undefined | value) are sets with at most one element.
None == {}

Some(v) == {v}

\* JavaScript's  o ?? d
OrElse(o, d) == IF o = None THEN d ELSE CHOOSE v \in o : TRUE

-----------------------------------------------------------------------------
\* Bounds of the model.
MaxDeliveries == 3

\* String(n) for the numbers the model uses.
NumStr(n) ==
    CASE n = 42 -> "42"
      [] n = 43 -> "43"
      [] n = 5  -> "5"
      [] n = 7  -> "7"
      [] n = 8  -> "8"
      [] n = 9  -> "9"
      [] n = -1 -> "-1"
      [] n = 0  -> "0"

\* new Date(ms).toISOString() for the instants the model uses (seconds).
IsoOfSeconds(s) ==
    CASE s = 1700000000 -> "2023-11-14T22:13:20.000Z"
      [] s = 0          -> "1970-01-01T00:00:00.000Z"

\* Faulty variant: the seconds of a numeric date not taken into account.
ToIsoIgnoresSeconds(d) ==
    IF d = None THEN IsoOfSeconds(0)
    ELSE LET v == CHOOSE x \in d : TRUE
         IN IF v.t = "number" THEN IsoOfSeconds(0) ELSE v.iso

\* toIsoFromTelegramDate: number -> seconds*1000 as ISO; Date -> its ISO;
\* undefined -> epoch.  A date is None, [num |-> s] or [iso |-> str].
toIsoFromTelegramDate(d) ==
    IF d = None THEN IsoOfSeconds(0)
    ELSE LET v == CHOOSE x \in d : TRUE
         IN IF v.t = "number" THEN IsoOfSeconds(v.s) ELSE v.iso

\* Peers as the events carry them (msg.peerId).
\* kind: which of channelId / chatId / userId the peer has ("undefined" for
\* no peer); id: its value, None for null.
Peer(k, i) == [kind |-> k, id |-> i]

\* handleNewMessage, lines 128-137: the channel-like id of a peer.
ChannelIdOf(peer) ==
    CASE peer.kind = "PeerChannel" /\ peer.id # None ->
            NumStr(OrElse(peer.id, 0))
      [] peer.kind = "PeerChat" /\ peer.id # None ->
            "chat:" \o NumStr(OrElse(peer.id, 0))
      [] peer.kind = "PeerUser" /\ peer.id # None ->
            "user:" \o NumStr(OrElse(peer.id, 0))
      [] OTHER -> "unknown"

\* handleNewMessage, lines 139-149: the payload of a message.
PayloadOf(msg) ==
    [channelId |-> ChannelIdOf(msg.peerId),
     messageId |-> OrElse(msg.id, -1),
     text      |-> OrElse(msg.message, ""),
     date      |-> toIsoFromTelegramDate(msg.date)]

\* Faulty variant: a dedup key without the message id.
KeyOfChannelOnly(p) == p.channelId

\* Faulty variant: a dedup key without the channel.
KeyOfMessageIdOnly(p) == NumStr(p.messageId)

\* handleNewMessage, line 143: the dedup key.
KeyOf(p) == p.channelId \o ":" \o NumStr(p.messageId)

-----------------------------------------------------------------------------
\* ---- Idempotency store: InMemoryProcessedMessagesRepo --------------------
wasProcessed(s, key) == key \in s

\* Faulty variant: a store that forgets what it is told.
MarkProcessedForgets(s, key) == s

markProcessed(s, key) == s \cup {key}

\* ---- Ingestion handler ----------------------------------------------------
\* An event is [message |-> None | Some(msg)]; an event without a message
\* makes handleNewMessage fault on msg.peerId (TypeError).
Msg(peer, id, text, date) ==
    [peerId |-> peer, id |-> id, message |-> text, date |-> date]

Event(m) == [message |-> m]

MalformedEvent == Event(None)

NumDate(s) == Some([t |-> "number", s |-> s, iso |-> ""])

\* A date that is a Date object, by its ISO form.
ObjDate(iso) == Some([t |-> "Date", s |-> 0, iso |-> iso])

\* A message handed to the broker client: whether the broker could be reached
\* when emit was called, and what became of the message since.
Handed(up) == [up |-> up, fate |-> "pending"]

\* Faulty variant: an emit that waits for the broker and raises when the broker
\* cannot be reached.
EmitSurfacesFailure(payload, up) ==
    [threw |-> ~up, calls |-> <<payload>>,
     sent |-> IF up THEN <<Handed(up)>> ELSE <<>>]

\* EventsPublisher.emitNewPost (part_007 32-36): this.client.emit(pattern,
\* payload) hands the message to the broker client and returns; the returned
\* observable is dropped, nothing is awaited and nothing is thrown.
emitNewPost(payload, up) ==
    [threw |-> FALSE, calls |-> <<payload>>, sent |-> <<Handed(up)>>]

\* Faulty variant: the key recorded before the publisher is called.
StoreAtEmitMarked(s, key) == markProcessed(s, key)

\* handleNewMessage, lines 151-152: emitNewPost is called first and
\* markProcessed after it, so the publisher is called on the store as the
\* duplicate check of line 144 left it.
StoreAtEmit(s, key) == s

\* handleNewMessage (lines 124-155) on store s: the emit calls it makes (pub, a
\* sequence of at most one payload), what reaches the broker client (sent),
\* for each emit call whether the store held the key when the call was made
\* (saw), the store it leaves, and whether it threw.
handleNewMessage(ev, s) ==
    IF ev.message = None
    THEN [threw |-> TRUE, pub |-> <<>>, sent |-> <<>>, saw |-> <<>>,
          seen |-> s, outcome |-> "crashed"]
    ELSE LET msg     == CHOOSE m \in ev.message : TRUE
             payload == PayloadOf(msg)
             key     == KeyOf(payload)
             e       == emitNewPost(payload, brokerUp)
             saw     == [j \in 1..Len(e.calls) |->
                            wasProcessed(StoreAtEmit(s, key), key)]
         IN IF wasProcessed(s, key)
            THEN [threw |-> FALSE, pub |-> <<>>, sent |-> <<>>, saw |-> <<>>,
                  seen |-> s, outcome |-> "dropped"]
            ELSE IF e.threw
                 THEN [threw |-> TRUE, pub |-> e.calls, sent |-> e.sent,
                       saw |-> saw, seen |-> StoreAtEmit(s, key),
                       outcome |-> "crashed"]
                 ELSE [threw |-> FALSE, pub |-> e.calls, sent |-> e.sent,
                       saw |-> saw, seen |-> markProcessed(s, key),
                       outcome |-> "published"]

\* Faulty variant: the callback without its try/catch.
BoundHandlerWithoutCatch(ev, s) ==
    LET r == handleNewMessage(ev, s)
    IN [pub |-> r.pub, sent |-> r.sent, saw |-> r.saw, seen |-> r.seen,
        outcome |-> r.outcome, logged |-> FALSE, escapes |-> r.threw]

\* The callback built in onModuleInit (lines 103-112): handleNewMessage inside
\* try/catch; a fault is logged and does not leave the callback.
boundNewMessageHandler(ev, s) ==
    LET r == handleNewMessage(ev, s)
    IN [pub |-> r.pub, sent |-> r.sent, saw |-> r.saw, seen |-> r.seen,
        outcome |-> r.outcome, logged |-> r.threw, escapes |-> FALSE]

\* The events the transport delivers in the ingestion specification.
IngestPeers ==
    {Peer("PeerChannel", Some(42)), Peer("PeerChat", Some(42)),
     Peer("PeerUser", Some(42)), Peer("undefined", None)}

IngestEvents ==
    {Event(Some(Msg(p, i, Some("hi"), NumDate(1700000000)))) :
        p \in IngestPeers, i \in {Some(7), None}}
    \cup {Event(Some(Msg(Peer("PeerChannel", Some(42)), Some(7), Some("edited"),
                         NumDate(1700000000))))}
    \cup {MalformedEvent}

\* ---- Session lifecycle: TelegramClientService ---------------------------
\* client = new TelegramClient(..., { connectionRetries: 5 })
ConnectionRetries == 5

\* saved = config.get('TG_SESSION_STRING') ?? ''
Saved == OrElse(cfgSession, "")

\* The token session.save() returns after an interactive login.
NewToken == "SESSION_NEW"

\* Faulty variant: the branch condition inverted.
InitBranchInverted(saved) == IF saved = "" THEN "connecting" ELSE "starting"

\* onModuleInit, line 72: if (!saved) interactive login, else connect.
InitBranch(saved) == IF saved = "" THEN "starting" ELSE "connecting"

\* onModuleInit, lines 84-91: what is printed once the awaited call resolved.
SurfacedAfter(branch) == IF branch = "starting" THEN <<NewToken>> ELSE <<>>

\* Faulty variant: the exhausted connection swallowed, the hook returning normally.
AfterFailedAttemptSwallowed(pc, n) ==
    IF n >= ConnectionRetries THEN "done" ELSE pc

\* A connection attempt failed for the n-th time: the client gives up (the
\* awaited connect/start rejects, so onModuleInit rejects) once the retry
\* ceiling is reached, and tries again before.
AfterFailedAttempt(pc, n) == IF n >= ConnectionRetries THEN "failed" ELSE pc

\* Faulty variant: onModuleDestroy without its catch.
DestroyOutcomeRethrows(disc) == IF disc = "throws" THEN "error" ELSE "ok"

\* onModuleDestroy, lines 101-105: try { await client?.disconnect() } catch {}
DestroyOutcome(disc) == "ok"

\* The session state when onModuleDestroy starts to disconnect a client, and
\* when the disconnect call is over.
StateOnDestroy(st) == IF st = "Connected" THEN "ShuttingDown" ELSE st

\* Faulty variant: a shutdown that leaves the session Connected.
StateAfterDisconnectStays(st) == "Connected"

StateAfterDisconnect(st) == IF st = "ShuttingDown" THEN "Closed" ELSE st

\* onModuleInit up to its first await (lines 61-77 / 93).
ClientInit ==
    /\ ~signalled
    /\ pcInit = "idle"
    /\ pcDestroy = "idle"
    /\ ~aborted
    /\ client' = TRUE
    /\ pcInit' = InitBranch(Saved)
    /\ state' = IF InitBranch(Saved) = "starting" THEN "Bootstrapping" ELSE state
    /\ UNCHANGED <<cfgSession, transport, attempts, interactive, surfaced,
                   serving, aborted, pcDestroy, discOutcome, destroyResult>>
    /\ UNCHANGED <<ingestVars, cmdVars, hostVars, pubVars>>

\* One connection attempt of client.connect() / client.start() ends.
ConnectAttempt(ok) ==
    /\ ~signalled
    /\ pcInit \in {"connecting", "starting"}
    /\ transport = "down"
    /\ attempts < ConnectionRetries
    /\ IF ok
       THEN /\ transport' = "up"
            /\ attempts' = attempts
            /\ aborted' = aborted
            /\ IF pcInit = "connecting"
               THEN /\ pcInit' = "done"
                    /\ state' = "Connected"
                    /\ surfaced' = surfaced \o SurfacedAfter(pcInit)
               ELSE UNCHANGED <<pcInit, state, surfaced>>
       ELSE /\ attempts' = attempts + 1
            /\ pcInit' = AfterFailedAttempt(pcInit, attempts + 1)
            \* the hook is over once the awaited call has settled: it rejects
            \* ("failed") and bootstrap() rejects with it, ending the process
            /\ aborted' = (pcInit' = "failed")
            /\ state' = IF pcInit' = "done" THEN "Connected" ELSE state
            /\ UNCHANGED <<transport, surfaced>>
    /\ UNCHANGED <<cfgSession, client, interactive, serving, pcDestroy,
                   discOutcome, destroyResult>>
    /\ UNCHANGED <<ingestVars, cmdVars, hostVars, pubVars>>

\* client.start(): the interactive credential exchange (phone, code, 2FA)
\* ends; on success lines 84-91 print the session string and the hook returns.
Exchange(ok) ==
    /\ ~signalled
    /\ pcInit = "starting"
    /\ transport = "up"
    /\ interactive' = TRUE
    /\ IF ok
       THEN /\ surfaced' = surfaced \o SurfacedAfter(pcInit)
            /\ pcInit' = "done"
            /\ state' = "Connected"
            /\ aborted' = aborted
       ELSE /\ pcInit' = "failed"
            /\ aborted' = TRUE
            /\ UNCHANGED <<surfaced, state>>
    /\ UNCHANGED <<cfgSession, client, transport, attempts, serving, pcDestroy,
                   discOutcome, destroyResult>>
    /\ UNCHANGED <<ingestVars, cmdVars, hostVars, pubVars>>

\* TelegramAppService.onModuleInit (lines 102-115): build the guarded callback
\* and register it (addNewMessageListener: client.addEventHandler + map entry).
AppInit ==
    /\ ~signalled
    /\ client
    /\ pcDestroy = "idle"
    /\ ~aborted
    /\ ~serving
    /\ ~bound
    /\ bound' = TRUE
    /\ transportHas' = TRUE
    /\ listeners' = TRUE
    /\ UNCHANGED <<seen, delivered, outcomes, published, escaped, errorLog,
                   emitSaw>>
    /\ UNCHANGED <<lifeVars, cmdVars, hostVars, pubVars>>

\* main.ts bootstrap (second version): startAllMicroservices runs the init
\* hooks and only then lets the command channel listen.
ServingAllowed == pcInit = "done" /\ bound

StartServing ==
    /\ ~signalled
    /\ ServingAllowed
    /\ ~serving
    /\ ~aborted
    /\ pcDestroy = "idle"
    /\ serving' = TRUE
    /\ UNCHANGED <<cfgSession, client, pcInit, transport, attempts, interactive,
                   surfaced, state, aborted, pcDestroy, discOutcome,
                   destroyResult>>
    /\ UNCHANGED <<ingestVars, cmdVars, hostVars, pubVars>>

\* TelegramAppService.onModuleDestroy (lines 117-121) with
\* removeNewMessageListener: only the map entry goes; the transport keeps
\* the callback.  The store's own onModuleDestroy (seen.clear()) never runs:
\* the repo is created with new, it is no provider of the module.
AppDestroy ==
    /\ ~signalled
    /\ bound
    /\ listeners
    /\ pcInit = "done"
    /\ listeners' = FALSE
    /\ UNCHANGED <<seen, bound, transportHas, delivered, outcomes, published,
                   escaped, errorLog, emitSaw>>
    /\ UNCHANGED <<lifeVars, cmdVars, hostVars, pubVars>>

\* TelegramClientService.onModuleDestroy up to its await: without a client
\* the optional call is skipped and the hook is over.  The hook runs when the
\* host closes the application, once, and not while onModuleInit is pending
\* (bootstrap awaits the startup; its second version installs no signal
\* hooks).
ClientDestroy ==
    /\ ~signalled
    /\ pcDestroy = "idle"
    /\ pcInit \in {"idle", "done"}
    /\ ~aborted
    /\ IF client
       THEN /\ pcDestroy' = "disconnecting"
            /\ state' = StateOnDestroy(state)
            /\ destroyResult' = destroyResult
       ELSE /\ pcDestroy' = "done"
            /\ state' = state
            /\ destroyResult' = DestroyOutcome("none")
    /\ UNCHANGED <<cfgSession, client, pcInit, transport, attempts, interactive,
                   surfaced, serving, aborted, discOutcome>>
    /\ UNCHANGED <<ingestVars, cmdVars, hostVars, pubVars>>

\* client.disconnect() ends, normally or with an error; a failed disconnect
\* may or may not have closed the connection.
DisconnectReturns(disc, closed) ==
    /\ ~signalled
    /\ pcDestroy = "disconnecting"
    /\ disc = "ok" => closed
    /\ discOutcome' = disc
    /\ pcDestroy' = "done"
    /\ destroyResult' = DestroyOutcome(disc)
    /\ transport' = IF closed THEN "closed" ELSE transport
    /\ state' = StateAfterDisconnect(state)
    /\ UNCHANGED <<cfgSession, client, pcInit, attempts, interactive, surfaced,
                   serving, aborted>>
    /\ UNCHANGED <<ingestVars, cmdVars, hostVars, pubVars>>

\* A shutdown signal (SIGTERM, SIGINT) reaches the running process.
\* bootstrap (main.ts 24-34) creates the application and starts the
\* microservices; it does not enable the shutdown hooks and installs no
\* listener of its own, so the signal ends the process by its default
\* disposition: no onModuleDestroy hook runs, nothing runs any more.
Signal ==
    /\ ~signalled
    /\ ~aborted
    /\ signalled' = TRUE
    /\ UNCHANGED parked
    /\ UNCHANGED <<ingestVars, lifeVars, cmdVars, pubVars>>

\* The transport calls the registered callback with one event: the try/catch
\* of lines 103-112 around handleNewMessage.
Deliver(ev) ==
    /\ ~signalled
    /\ transportHas
    /\ pcInit = "done"
    /\ transport = "up"
    /\ Len(delivered) < MaxDeliveries
    /\ LET r == boundNewMessageHandler(ev, seen)
       IN /\ seen' = r.seen
          /\ published' = published \o r.pub
          /\ outcomes' = Append(outcomes, r.outcome)
          /\ errorLog' = IF r.logged THEN errorLog + 1 ELSE errorLog
          /\ escaped' = IF r.escapes THEN escaped + 1 ELSE escaped
          /\ outbox' = outbox \o r.sent
          /\ emitSaw' = emitSaw \o r.saw
    /\ delivered' = Append(delivered, ev)
    /\ UNCHANGED <<bound, transportHas, listeners, brokerUp>>
    /\ UNCHANGED <<lifeVars, cmdVars, hostVars>>

\* ---- Broker (environment of EventsPublisher) ------------------------------
\* The broker becomes unreachable, or reachable again.
BrokerFlips ==
    /\ ~signalled
    /\ brokerUp' = ~brokerUp
    /\ UNCHANGED outbox
    /\ UNCHANGED <<ingestVars, lifeVars, cmdVars, hostVars>>

\* The broker client is done with the j-th message it was handed: the broker
\* acknowledged it, or the publish failed.  Nobody subscribed to the
\* observable of the emit call, so neither outcome reaches the pipeline.
BrokerSettles(j) ==
    /\ ~signalled
    /\ j \in 1..Len(outbox)
    /\ outbox[j].fate = "pending"
    /\ outbox' = [outbox EXCEPT ![j].fate =
                      IF brokerUp THEN "acked" ELSE "failed"]
    /\ UNCHANGED brokerUp
    /\ UNCHANGED <<ingestVars, lifeVars, cmdVars, hostVars>>

-----------------------------------------------------------------------------
\* ---- Command gateway: subscribe / unsubscribe ----------------------------
\* Errors of a network round trip: an RPCError carries the network's code in
\* errorMessage (here the words between the underscores), any other fault is
\* not an RPCError.
RpcError(code) == [rpc |-> TRUE, code |-> code]

Fault(code) == [rpc |-> FALSE, code |-> code]

\* String.prototype.includes on codes, word by word.
Includes(code, sub) ==
    \E i \in 1..(Len(code) - Len(sub) + 1) :
        SubSeq(code, i, i + Len(sub) - 1) = sub

UserNotParticipant == <<"USER", "NOT", "PARTICIPANT">>

ChannelPrivate == <<"CHANNEL", "PRIVATE">>

ChatIdInvalid == <<"CHAT", "ID", "INVALID">>

ChannelInvalid == <<"CHANNEL", "INVALID">>

PeerIdInvalid == <<"PEER", "ID", "INVALID">>

UserAlreadyParticipant == <<"USER", "ALREADY", "PARTICIPANT">>

\* The five codes leave() names (lines 213-217).
AlreadyGoneCodes ==
    {UserNotParticipant, ChannelPrivate, ChatIdInvalid, ChannelInvalid,
     PeerIdInvalid}

\* Faulty variants of the condition: one of the five names left out; every
\* RPCError taken as 'already gone'; every error taken as 'already gone'.
IsAlreadyGoneAnyError(err) == TRUE

IsAlreadyGoneWithoutPeerId(err) ==
    /\ err.rpc
    /\ \/ Includes(err.code, UserNotParticipant)
       \/ Includes(err.code, ChannelPrivate)
       \/ Includes(err.code, ChatIdInvalid)
       \/ Includes(err.code, ChannelInvalid)

IsAlreadyGoneAnyRpc(err) == err.rpc

\* leave(), lines 209-218: err instanceof RPCError and its code includes one
\* of the five names.
IsAlreadyGone(err) ==
    /\ err.rpc
    /\ \/ Includes(err.code, UserNotParticipant)
       \/ Includes(err.code, ChannelPrivate)
       \/ Includes(err.code, ChatIdInvalid)
       \/ Includes(err.code, ChannelInvalid)
       \/ Includes(err.code, PeerIdInvalid)

\* What client.invoke can fail with: the five codes, other network codes, an
\* RPCError without a message, and a fault that is no RPCError.
InvokeErrors ==
    {RpcError(c) : c \in AlreadyGoneCodes}
    \cup {RpcError(UserAlreadyParticipant), RpcError(<<"FLOOD", "WAIT">>),
          RpcError(<<>>), Fault(<<"TIMEOUT">>)}

\* What client.getEntity can fail with.
ResolveErrors ==
    {Fault(<<"Cannot", "find", "any", "entity">>),
     RpcError(<<"USERNAME", "NOT", "OCCUPIED">>),
     RpcError(ChannelPrivate)}

\* The entities of the network, by identifier.
Entity(cls, id, mega, username, title, first, last) ==
    [cls |-> cls, id |-> id, megagroup |-> mega, username |-> username,
     title |-> title, firstName |-> first, lastName |-> last]

Directory ==
    [i \in {"@news", "@group", "@secret", "-5", "@alice", "@stub"} |->
        CASE i = "@news"   -> Entity("Channel", 42, FALSE, Some("news"),
                                     Some("News"), None, None)
          [] i = "@group"  -> Entity("Channel", 43, TRUE, None,
                                     Some("Group"), None, None)
          [] i = "@secret" -> Entity("ChannelForbidden", 9, FALSE, None,
                                     Some("Secret"), None, None)
          [] i = "-5"      -> Entity("Chat", 5, FALSE, None,
                                     Some("Friends"), None, None)
          [] i = "@alice"  -> Entity("User", 7, FALSE, Some("alice"),
                                     None, Some("Alice"), None)
          [] i = "@stub"   -> Entity("ChatForbidden", 8, FALSE, None,
                                     Some("Stub"), None, None)]

Identifiers == DOMAIN Directory \cup {"@unknownhandle"}

\* throw new Error(`Unsupported peer type: ${safeClassName(entity)}`)
UnsupportedPeer(entity) ==
    Fault(<<"Unsupported", "peer", "type", entity.cls>>)

\* Results of a command: it returned (sub, left, status or page is set) or it
\* raised.
Raised(err) ==
    [raised |-> Some(err), sub |-> None, left |-> None, status |-> None,
     page |-> None]

ReturnedSub(r) ==
    [raised |-> None, sub |-> Some(r), left |-> None, status |-> None,
     page |-> None]

ReturnedLeft(r) ==
    [raised |-> None, sub |-> None, left |-> Some(r), status |-> None,
     page |-> None]

ReturnedStatus(r) ==
    [raised |-> None, sub |-> None, left |-> None, status |-> Some(r),
     page |-> None]

ReturnedPage(r) ==
    [raised |-> None, sub |-> None, left |-> None, status |-> None,
     page |-> Some(r)]

\* [firstName, lastName].filter(Boolean).join(' ') || undefined
UserTitle(e) ==
    LET f == OrElse(e.firstName, "")
        l == OrElse(e.lastName, "")
    IN IF f # "" /\ l # "" THEN Some(f \o " " \o l)
       ELSE IF f \o l = "" THEN None ELSE Some(f \o l)

\* Faulty variant: a join request for every peer that can be described.
JoinStepJoinsAll(e) ==
    CASE e.cls \in {"Channel", "Chat", "User", "ChannelForbidden"} -> "join"
      [] OTHER -> "unsupported"

\* joinAndResolve, lines 123-156: which branch an entity takes.
JoinStep(e) ==
    CASE e.cls = "Channel" -> "join"
      [] e.cls \in {"Chat", "User", "ChannelForbidden"} -> "describe"
      [] OTHER -> "unsupported"

\* Faulty variant: every record with the bare id.
DescribeBareIds(e) ==
    [tgId |-> NumStr(e.id),
     username |-> IF e.cls \in {"Channel", "User"} THEN e.username ELSE None,
     title |-> IF e.cls = "User" THEN UserTitle(e) ELSE e.title]

\* joinAndResolve: the record returned for an entity.
Describe(e) ==
    CASE e.cls = "Chat" ->
            [tgId |-> "chat:" \o NumStr(e.id), username |-> None,
             title |-> e.title]
      [] e.cls = "User" ->
            [tgId |-> "user:" \o NumStr(e.id), username |-> e.username,
             title |-> UserTitle(e)]
      [] e.cls = "Channel" ->
            [tgId |-> NumStr(e.id), username |-> e.username,
             title |-> e.title]
      [] OTHER ->
            [tgId |-> NumStr(e.id), username |-> None, title |-> e.title]

\* The network requests the commands issue.
Request(rpc, target, revoke) ==
    [rpc |-> rpc, target |-> target, revoke |-> revoke]

JoinRequest(e) == Request("channels.JoinChannel", e.id, None)

\* Faulty variant: the dialog history deleted for the other side too.
LeaveRequestRevoking(e) ==
    CASE e.cls \in {"Channel", "ChannelForbidden"} ->
            Some(Request("channels.LeaveChannel", e.id, None))
      [] e.cls = "Chat" ->
            Some(Request("messages.DeleteChatUser", e.id, None))
      [] e.cls = "User" ->
            Some(Request("messages.DeleteHistory", e.id, Some(TRUE)))
      [] OTHER -> None

\* leave, lines 163-204: the request for an entity, None for an entity of a
\* class leave does not know.
LeaveRequest(e) ==
    CASE e.cls \in {"Channel", "ChannelForbidden"} ->
            Some(Request("channels.LeaveChannel", e.id, None))
      [] e.cls = "Chat" ->
            Some(Request("messages.DeleteChatUser", e.id, None))
      [] e.cls = "User" ->
            Some(Request("messages.DeleteHistory", e.id, Some(FALSE)))
      [] OTHER -> None

\* leave: the kind reported when the request succeeded (lines 172-203).
LeftKind(e) ==
    CASE e.cls = "Channel" /\ e.megagroup -> "megagroup"
      [] e.cls = "Chat" -> "chat"
      [] e.cls = "User" -> "user"
      [] OTHER -> "channel"

\* leave: the kind reported when an error was absorbed (lines 222-227).
AbsorbedKind(e) ==
    CASE e.cls = "Chat" -> "chat"
      [] e.cls = "User" -> "user"
      [] OTHER -> "channel"

\* leave, the catch block (lines 207-233).
LeaveCatch(e, err) ==
    IF IsAlreadyGone(err)
    THEN ReturnedLeft([left |-> TRUE, kind |-> AbsorbedKind(e)])
    ELSE Raised(err)

\* subscribeToChannel (helper.ts 163-167) around joinAndResolve's record.
subscribeToChannel(info) == ReturnedSub([ok |-> TRUE, channel |-> info])

\* Faulty variant: a join that takes 'already a participant' as success.
JoinFailedAbsorbsAlready(e, err) ==
    IF err.rpc /\ Includes(err.code, UserAlreadyParticipant)
    THEN subscribeToChannel(Describe(e))
    ELSE Raised(err)

\* joinAndResolve has no catch: a failed join request rejects the call.
JoinFailed(e, err) == Raised(err)

\* Faulty variant: a resolution failure swallowed into a successful answer.
ResolveFailedSwallowed(op, err) ==
    IF op = "subscribe"
    THEN subscribeToChannel([tgId |-> "unknown", username |-> None,
                             title |-> None])
    ELSE Raised(err)

\* getEntity is awaited outside any try block, in joinAndResolve (line 121)
\* and in leave (line 160): its error rejects the call.
ResolveFailed(op, err) == Raised(err)

\* unsubscribeToChannel (helper.ts 168-173) around leave's result.
unsubscribeToChannel(info) ==
    ReturnedLeft([left |-> info.left, kind |-> info.kind])

Ops == {"subscribe", "unsubscribe"}

\* dto: the payload of a fetchPosts command, None for the other commands.
IdleCall ==
    [pc |-> "idle", op |-> "none", id |-> "", requests |-> <<>>,
     again |-> None, dto |-> None]

NoCall ==
    [op |-> "none", id |-> "", resolveErr |-> None, invokeErr |-> None,
     requests |-> <<>>, result |-> Raised(Fault(<<>>)), again |-> None,
     dto |-> None]

\* A command is over: remember it with what the network did.
Complete(resolveErr, invokeErr, result) ==
    /\ lastCall' = [op |-> call.op, id |-> call.id, resolveErr |-> resolveErr,
                    invokeErr |-> invokeErr, requests |-> call.requests,
                    result |-> result, again |-> call.again,
                    dto |-> call.dto]
    /\ call' = IdleCall

\* telegram.subscribe / telegram.unsubscribe arrives: the controller calls the
\* app service, which calls joinAndResolve / leave, which awaits getEntity.
\* again: the result of the previous command if it was the same command for
\* the same identifier and returned.
CallStart(op, id) ==
    /\ ~signalled
    /\ serving
    /\ call.pc = "idle"
    /\ call' = [pc |-> "resolving", op |-> op, id |-> id, requests |-> <<>>,
                again |-> IF /\ lastCall.op = op
                             /\ lastCall.id = id
                             /\ lastCall.result.raised = None
                          THEN Some(lastCall.result) ELSE None,
                dto |-> None]
    /\ UNCHANGED lastCall
    /\ UNCHANGED <<ingestVars, lifeVars, hostVars, pubVars>>

\* getEntity(identifier) ends: with an error, or with the entity, and the
\* command runs up to its next await.
ResolveReturns(err) ==
    /\ ~signalled
    /\ call.pc = "resolving"
    /\ err = None => call.id \in DOMAIN Directory
    /\ IF err # None
       THEN Complete(err, None, ResolveFailed(call.op, OrElse(err, NoCall)))
       ELSE LET e == Directory[call.id]
            IN IF call.op = "subscribe"
               THEN CASE JoinStep(e) = "join" ->
                            /\ call' = [call EXCEPT !.pc = "invoking",
                                          !.requests = <<JoinRequest(e)>>]
                            /\ UNCHANGED lastCall
                      [] JoinStep(e) = "describe" ->
                            Complete(None, None, subscribeToChannel(Describe(e)))
                      [] OTHER ->
                            Complete(None, None, Raised(UnsupportedPeer(e)))
               ELSE IF LeaveRequest(e) # None
                    THEN /\ call' = [call EXCEPT !.pc = "invoking",
                                       !.requests = <<OrElse(LeaveRequest(e), 0)>>]
                         /\ UNCHANGED lastCall
                    ELSE Complete(None, None, LeaveCatch(e, UnsupportedPeer(e)))
    /\ UNCHANGED <<ingestVars, lifeVars, hostVars, pubVars>>

\* client.invoke(request) ends, normally or with an error.
InvokeReturns(err) ==
    /\ ~signalled
    /\ call.pc = "invoking"
    /\ LET e == Directory[call.id]
       IN IF call.op = "subscribe"
          THEN IF err = None
               THEN Complete(None, None, subscribeToChannel(Describe(e)))
               ELSE Complete(None, err, JoinFailed(e, OrElse(err, NoCall)))
          ELSE IF err = None
               THEN Complete(None, None,
                        unsubscribeToChannel([left |-> TRUE, kind |-> LeftKind(e)]))
               ELSE LET r == LeaveCatch(e, OrElse(err, NoCall))
                    IN Complete(None, err,
                          IF r.raised # None THEN r
                          ELSE unsubscribeToChannel(OrElse(r.left, NoCall)))
    /\ UNCHANGED <<ingestVars, lifeVars, hostVars, pubVars>>

\* ---- Command gateway: health ----------------------------------------------
\* What client.getMe() can fail with.
ProbeErrors ==
    {RpcError(<<"AUTH", "KEY", "UNREGISTERED">>), Fault(<<"TIMEOUT">>),
     Fault(<<"Cannot", "send", "requests", "while", "disconnected">>)}

\* Faulty variant: health without its catch.
HealthWithoutCatch(err) ==
    IF err = None THEN ReturnedStatus("ok") ELSE Raised(OrElse(err, NoCall))

\* TelegramClientService.health (part_005 284-291):
\* try { await this.getMe(); return 'ok' } catch { return 'down' }
health(err) ==
    IF err = None THEN ReturnedStatus("ok") ELSE ReturnedStatus("down")

\* TelegramAppService.health (helper.ts 214-217) around the client's answer:
\* const status = await this.tgClient.health(); return { status }
appHealth(r) ==
    IF r.raised # None THEN r
    ELSE ReturnedStatus([status |-> OrElse(r.status, "")])

\* telegram.health arrives: controller -> app service -> client service ->
\* getMe, which awaits the identity round trip.
HealthStart ==
    /\ ~signalled
    /\ serving
    /\ call.pc = "idle"
    /\ call' = [pc |-> "probing", op |-> "health", id |-> "",
                requests |-> <<>>, again |-> None, dto |-> None]
    /\ UNCHANGED lastCall
    /\ UNCHANGED <<ingestVars, lifeVars, hostVars, pubVars>>

\* client.getMe() ends, normally or with an error.
GetMeReturns(err) ==
    /\ ~signalled
    /\ call.pc = "probing"
    /\ Complete(None, err, appHealth(health(err)))
    /\ UNCHANGED <<ingestVars, lifeVars, hostVars, pubVars>>

\* ---- Command gateway: fetchPosts ------------------------------------------
\* A message of a history page: cls is "Message" (Api.Message, a concrete
\* message), "MessageService" or "MessageEmpty".
HMsg(cls, peer, id, text, date) ==
    [cls |-> cls, peerId |-> peer, id |-> id, message |-> text, date |-> date]

\* The history the network holds for an entity, newest first.
History(e) ==
    CASE e.id = 42 ->
            LET p == Peer("PeerChannel", Some(42))
            IN <<HMsg("Message", p, 9, Some("c"), NumDate(1700000000)),
                 HMsg("Message", p, 8, None, NumDate(1700000000)),
                 HMsg("Message", p, 7, Some("hi"), NumDate(1700000000))>>
      [] e.id = 43 ->
            LET p == Peer("PeerChannel", Some(43))
            IN <<HMsg("Message", p, 9, Some("z"), NumDate(1700000000)),
                 HMsg("MessageService", p, 8, None, NumDate(1700000000)),
                 HMsg("Message", p, 7, Some("x"), NumDate(0))>>
      [] e.id = 7 ->
            <<HMsg("MessageService", Peer("PeerUser", Some(7)), 5, None,
                   NumDate(0)),
              HMsg("MessageEmpty", Peer("PeerUser", Some(7)), 0, None, None)>>
      [] OTHER -> <<>>

\* messages.GetHistory on the network: the messages older than offsetId (all
\* of them for offsetId = 0), newest first, at most limit of them.
Page(h, limit, offsetId) ==
    LET older == SelectSeq(h, LAMBDA m : offsetId = 0 \/ m.id < offsetId)
    IN SubSeq(older, 1, IF Len(older) < limit THEN Len(older) ELSE limit)

\* A fetchPosts payload (FetchPostsDto).
Dto(identifier, limit, offsetId) ==
    [identifier |-> identifier, limit |-> limit, offsetId |-> offsetId]

\* fetchHistory, lines 183-191: the parameters handed to getHistory.
FetchParams(dto) ==
    [identifier |-> dto.identifier, limit |-> OrElse(dto.limit, 20),
     offsetId |-> OrElse(dto.offsetId, 0)]

\* getHistory (part_005 250-272): the request for the resolved entity; the
\* cursor fields the caller left out are 0.
HistoryRequest(e, params) ==
    [rpc |-> "messages.GetHistory", target |-> e.id, limit |-> params.limit,
     offsetId |-> params.offsetId, addOffset |-> 0, maxId |-> 0, minId |-> 0,
     offsetDate |-> 0]

\* fetchHistory, lines 197-205: the concrete messages, normalised.
Real(items) == SelectSeq(items, LAMBDA m : m.cls = "Message")

Normalized(m) ==
    [id |-> m.id, date |-> toIsoFromTelegramDate(m.date),
     message |-> OrElse(m.message, "")]

\* Faulty variant: the cursor taken from the first item.
NextOffsetIdOfFirst(list) ==
    IF Len(list) > 0 THEN Some(list[1].id) ELSE None

\* fetchHistory, line 207.
NextOffsetId(list) ==
    IF Len(list) > 0 THEN Some(list[Len(list)].id) ELSE None

\* Faulty variant: a fetch that marks what it fetched as processed.
FetchHistoryTracks(raw, s) ==
    LET real == Real(OrElse(raw.messages, <<>>))
        list == [k \in 1..Len(real) |-> Normalized(real[k])]
    IN [result |-> ReturnedPage([list |-> list,
                                 nextOffsetId |-> NextOffsetId(list)]),
        seen |-> s \cup {ChannelIdOf(real[k].peerId) \o ":" \o NumStr(real[k].id) :
                            k \in 1..Len(real)},
        pub |-> <<>>]

\* fetchHistory, lines 193-208, on the raw answer and the store s: what it
\* returns, the store it leaves and the emit calls it makes (it uses neither
\* processedRepo nor events).
fetchHistory(raw, s) ==
    LET real == Real(OrElse(raw.messages, <<>>))
        list == [k \in 1..Len(real) |-> Normalized(real[k])]
    IN [result |-> ReturnedPage([list |-> list,
                                 nextOffsetId |-> NextOffsetId(list)]),
        seen |-> s,
        pub |-> <<>>]

\* What the GetHistory request can fail with.
HistoryErrors ==
    {RpcError(ChannelPrivate), RpcError(<<"FLOOD", "WAIT">>),
     Fault(<<"TIMEOUT">>)}

\* telegram.fetchPosts arrives: controller -> fetchHistory -> getHistory,
\* which awaits getEntity.
FetchStart(dto) ==
    /\ ~signalled
    /\ serving
    /\ call.pc = "idle"
    /\ call' = [pc |-> "fetchResolving", op |-> "fetchPosts",
                id |-> dto.identifier, requests |-> <<>>, again |-> None,
                dto |-> Some(dto)]
    /\ UNCHANGED lastCall
    /\ UNCHANGED <<ingestVars, lifeVars, hostVars, pubVars>>

\* getEntity of getHistory (part_005 260) ends: its error rejects the
\* command; with the entity, of whatever class, the request is sent.
HistoryResolves(err) ==
    /\ ~signalled
    /\ call.pc = "fetchResolving"
    /\ err = None => call.id \in DOMAIN Directory
    /\ IF err # None
       THEN Complete(err, None, Raised(OrElse(err, NoCall)))
       ELSE /\ call' = [call EXCEPT
                          !.pc = "fetching",
                          !.requests =
                             <<HistoryRequest(Directory[call.id],
                                  FetchParams(OrElse(call.dto, NoCall)))>>]
            /\ UNCHANGED lastCall
    /\ UNCHANGED <<ingestVars, lifeVars, hostVars, pubVars>>

\* client.invoke(GetHistory) ends: with an error, which rejects the command,
\* or with the page, which fetchHistory filters and normalises.
HistoryReturns(err) ==
    /\ ~signalled
    /\ call.pc = "fetching"
    /\ IF err # None
       THEN /\ Complete(None, err, Raised(OrElse(err, NoCall)))
            /\ UNCHANGED <<seen, published>>
       ELSE LET req == call.requests[1]
                raw == [messages |->
                          Some(Page(History(Directory[call.id]), req.limit,
                                    req.offsetId))]
                r   == fetchHistory(raw, seen)
            IN /\ Complete(None, None, r.result)
               /\ seen' = r.seen
               /\ published' = published \o r.pub
    /\ UNCHANGED <<bound, transportHas, listeners, delivered, outcomes,
                   escaped, errorLog, emitSaw>>
    /\ UNCHANGED <<lifeVars, hostVars, pubVars>>

-----------------------------------------------------------------------------
\* ---- Specifications -------------------------------------------------------
\* The ingestion state after construction.
IngestInit ==
    /\ seen = {}
    /\ bound = FALSE
    /\ transportHas = FALSE
    /\ listeners = FALSE
    /\ delivered = <<>>
    /\ outcomes = <<>>
    /\ published = <<>>
    /\ escaped = 0
    /\ errorLog = 0
    /\ emitSaw = <<>>

\* The configurations a process can start with.
Configs == {None, Some(""), Some("SESSION_SAVED")}

LifeInit ==
    /\ cfgSession \in Configs
    /\ client = FALSE
    /\ pcInit = "idle"
    /\ transport = "down"
    /\ attempts = 0
    /\ interactive = FALSE
    /\ surfaced = <<>>
    /\ state = "Uninitialized"
    /\ serving = FALSE
    /\ aborted = FALSE
    /\ pcDestroy = "idle"
    /\ discOutcome = "none"
    /\ destroyResult = "none"

\* Events of the lifecycle specification: one well-formed, one malformed.
LifeEvents ==
    {Event(Some(Msg(Peer("PeerChannel", Some(42)), Some(7), Some("hi"),
                    NumDate(1700000000)))),
     MalformedEvent}

\* Spec: the process from its start to its shutdown.
CmdInit ==
    /\ call = IdleCall
    /\ lastCall = NoCall

\* The process has received no signal; the publisher's broker client is
\* created in the constructor and has sent nothing.
HostInit == signalled = FALSE /\ parked = IdleCall

PubInit ==
    /\ brokerUp = TRUE
    /\ outbox = <<>>

Init == IngestInit /\ LifeInit /\ CmdInit /\ HostInit /\ PubInit

Next ==
    \/ ClientInit
    \/ AppInit
    \/ \E ok \in BOOLEAN : ConnectAttempt(ok)
    \/ \E ok \in BOOLEAN : Exchange(ok)
    \/ StartServing
    \/ \E ev \in LifeEvents : Deliver(ev)
    \/ AppDestroy
    \/ ClientDestroy
    \/ \E d \in {"ok", "throws"}, c \in BOOLEAN : DisconnectReturns(d, c)
    \/ Signal
    \/ HealthStart
    \/ \E err \in {None} \cup {Some(x) : x \in ProbeErrors} : GetMeReturns(err)

Spec == Init /\ [][Next]_vars

\* SpecLive: the same process with a runtime that goes on as long as a step
\* is possible (the event loop runs every callback and continuation that is
\* due).
SpecLive == Init /\ [][Next]_vars /\ WF_vars(Next)

\* The states right after a successful startup (both init hooks done, the
\* command channel listening), on the resume path and on the interactive path.
Started ==
    /\ cfgSession \in Configs
    /\ client = TRUE
    /\ pcInit = "done"
    /\ transport = "up"
    /\ attempts = 0
    /\ interactive = (Saved = "")
    /\ surfaced = SurfacedAfter(InitBranch(Saved))
    /\ state = "Connected"
    /\ serving = TRUE
    /\ aborted = FALSE
    /\ pcDestroy = "idle"
    /\ discOutcome = "none"
    /\ destroyResult = "none"
    /\ seen = {}
    /\ bound = TRUE
    /\ transportHas = TRUE
    /\ listeners = TRUE
    /\ delivered = <<>>
    /\ outcomes = <<>>
    /\ published = <<>>
    /\ escaped = 0
    /\ errorLog = 0
    /\ emitSaw = <<>>
    /\ CmdInit
    /\ HostInit
    /\ PubInit

\* SpecIngest: the ingestion pipeline of a started process.
IngestNext ==
    \/ \E ev \in IngestEvents : Deliver(ev)
    \/ AppDestroy

SpecIngest == Started /\ [][IngestNext]_vars

\* SpecPosts: the fetchPosts command of a started process.
FetchDtos ==
    {Dto(i, l, o) : i \in {"@news", "@group", "@alice", "-5", "@unknownhandle"},
                    l \in {None, Some(1), Some(2)},
                    o \in {None, Some(0), Some(9)}}

PostsNext ==
    \/ \E dto \in FetchDtos : FetchStart(dto)
    \/ \E err \in {None} \cup {Some(x) : x \in ResolveErrors} :
          HistoryResolves(err)
    \/ \E err \in {None} \cup {Some(x) : x \in HistoryErrors} :
          HistoryReturns(err)

SpecPosts == Started /\ [][PostsNext]_vars

\* SpecNorm: the ingestion pipeline of a started process on messages of every
\* shape: each peer kind with and without a message id, a peer object of
\* another kind, a channel peer whose id is null, a message without text,
\* without date, and with a Date object as date.
NormPeers ==
    {Peer("PeerChannel", Some(42)), Peer("PeerChannel", None),
     Peer("PeerChat", Some(5)), Peer("PeerUser", Some(7)),
     Peer("undefined", None), Peer("InputPeerSelf", None)}

NormEvents ==
    {Event(Some(Msg(p, i, Some("hi"), NumDate(1700000000)))) :
        p \in NormPeers, i \in {Some(7), None}}
    \cup {Event(Some(Msg(Peer("PeerChannel", Some(42)), Some(8), None, None))),
          Event(Some(Msg(Peer("PeerChannel", Some(42)), Some(8), Some(""),
                         NumDate(0)))),
          Event(Some(Msg(Peer("PeerChannel", Some(42)), Some(9), Some("hi"),
                         ObjDate("2024-02-29T12:00:00.000Z"))))}

NormNext == \E ev \in NormEvents : Deliver(ev)

SpecNorm == Started /\ [][NormNext]_vars

\* SpecPub: the ingestion pipeline of a started process with its broker;
\* three events with three dedup keys.
PubEvents ==
    {Event(Some(Msg(p, Some(7), Some("hi"), NumDate(1700000000)))) :
        p \in {Peer("PeerChannel", Some(42)), Peer("PeerChat", Some(42)),
               Peer("PeerUser", Some(42))}}

PubNext ==
    \/ \E ev \in PubEvents : Deliver(ev)
    \/ BrokerFlips
    \/ \E j \in 1..MaxDeliveries : BrokerSettles(j)

SpecPub == Started /\ [][PubNext]_vars

\* SpecFetch: fetchPosts commands and real-time events of the same channel
\* in one started process.
PullDtos ==
    {Dto("@news", None, None), Dto("@news", Some(2), Some(9)),
     Dto("@unknownhandle", None, None)}

FetchNext ==
    \/ \E dto \in PullDtos : FetchStart(dto)
    \/ \E err \in {None} \cup {Some(x) : x \in ResolveErrors} :
          HistoryResolves(err)
    \/ \E err \in {None} \cup {Some(x) : x \in HistoryErrors} :
          HistoryReturns(err)
    \/ \E ev \in PubEvents : Deliver(ev)

SpecFetch == Started /\ [][FetchNext]_vars

\* The peer that the messages of a dialog carry (msg.peerId): a channel peer
\* for a channel or megagroup, a chat peer for a legacy chat, a user peer for
\* the dialog with an individual, each with the id of the entity.
PeerOf(e) ==
    CASE e.cls \in {"Channel", "ChannelForbidden"} ->
            Peer("PeerChannel", Some(e.id))
      [] e.cls = "Chat" -> Peer("PeerChat", Some(e.id))
      [] e.cls = "User" -> Peer("PeerUser", Some(e.id))
      [] OTHER -> Peer("undefined", None)

\* SpecSub: subscribe commands and real-time events in one started process:
\* a channel, a legacy chat, an individual, and a legacy chat that has the
\* number of the channel.
SubIds == {"@news", "-5", "@alice"}

SubEvents ==
    {Event(Some(Msg(PeerOf(Directory[i]), Some(7), Some("hi"),
                    NumDate(1700000000)))) : i \in SubIds}
    \cup {Event(Some(Msg(Peer("PeerChat", Some(42)), Some(7), Some("hi"),
                         NumDate(1700000000))))}

SubNext ==
    \/ \E id \in SubIds : CallStart("subscribe", id)
    \/ \E err \in {None, Some(Fault(<<"Cannot", "find", "any", "entity">>))} :
          ResolveReturns(err)
    \/ \E err \in {None, Some(RpcError(<<"FLOOD", "WAIT">>))} :
          InvokeReturns(err)
    \/ \E ev \in SubEvents : Deliver(ev)

SpecSub == Started /\ [][SubNext]_vars

\* The handlers of the controller are async functions on one event loop: a
\* command suspended at an await (getEntity, invoke, getMe) leaves the loop
\* free to start or to resume another command.  Two commands are kept: the one
\* whose await ends next (call) and the other one (parked); the loop may pick
\* either.
Switch ==
    /\ ~signalled
    /\ call.pc # "idle" \/ parked.pc # "idle"
    /\ call' = parked
    /\ parked' = call
    /\ UNCHANGED <<lastCall, signalled>>
    /\ UNCHANGED <<ingestVars, lifeVars, pubVars>>

\* SpecMix: the four commands, two of them in flight at a time, and real-time
\* events in one started process.
MixErrors == {None, Some(RpcError(<<"FLOOD", "WAIT">>))}

MixEvents ==
    {Event(Some(Msg(p, Some(7), Some("hi"), NumDate(1700000000)))) :
        p \in {Peer("PeerChannel", Some(42)), Peer("PeerChat", Some(42))}}

MixNext ==
    \/ \E op \in Ops : CallStart(op, "@news")
    \/ FetchStart(Dto("@news", None, None))
    \/ HealthStart
    \/ \E err \in MixErrors : ResolveReturns(err)
    \/ \E err \in MixErrors : InvokeReturns(err)
    \/ \E err \in MixErrors : HistoryResolves(err)
    \/ \E err \in MixErrors : HistoryReturns(err)
    \/ \E err \in MixErrors : GetMeReturns(err)
    \/ \E ev \in MixEvents : Deliver(ev)
    \/ Switch

SpecMix == Started /\ [][MixNext]_vars

\* SpecCmd: the command gateway of a started process.
CmdNext ==
    \/ \E op \in Ops, id \in Identifiers : CallStart(op, id)
    \/ \E err \in {None} \cup {Some(x) : x \in ResolveErrors} : ResolveReturns(err)
    \/ \E err \in {None} \cup {Some(x) : x \in InvokeErrors} : InvokeReturns(err)

SpecCmd == Started /\ [][CmdNext]_vars

-----------------------------------------------------------------------------
\* ---- Claims about the ingestion pipeline ---------------------------------
\* The (channelId, messageId) pair of a well-formed delivered event.
PairOf(ev) ==
    LET p == PayloadOf(CHOOSE m \in ev.message : TRUE)
    IN <<p.channelId, p.messageId>>

WellFormed(i) == delivered[i].message # None

PublishesOf(pair) ==
    {j \in 1..Len(published) :
        <<published[j].channelId, published[j].messageId>> = pair}

\* C1: whatever the sequence of delivered events, each (channelId, messageId)
\* pair that was delivered (once or several times, interleaved with other
\* events) has exactly one emitNewPost call, and every redelivery of a pair is
\* dropped: nothing is published for it, nothing is logged as a fault and
\* nothing escapes the callback.
C1_ExactlyOnePublish ==
    /\ escaped = 0
    /\ \A i \in 1..Len(delivered) :
          WellFormed(i) =>
             /\ Cardinality(PublishesOf(PairOf(delivered[i]))) = 1
             /\ (\E j \in 1..(i - 1) :
                    WellFormed(j) /\ PairOf(delivered[j]) = PairOf(delivered[i]))
                   => outcomes[i] = "dropped"
    /\ errorLog = Cardinality({i \in 1..Len(delivered) : ~WellFormed(i)})

\* C1 witness: a pair delivered twice with another pair in between, both
\* published.
C1_Witness ==
    /\ Len(delivered) = 3
    /\ WellFormed(1) /\ WellFormed(2) /\ WellFormed(3)
    /\ PairOf(delivered[1]) = PairOf(delivered[3])
    /\ PairOf(delivered[1]) # PairOf(delivered[2])
    /\ delivered[1] # delivered[3]
    /\ Len(published) = 2

-----------------------------------------------------------------------------
\* ---- Claims about the command gateway ------------------------------------
LastIs(op) == lastCall.op = op

LastLeft == OrElse(lastCall.result.left, [left |-> FALSE, kind |-> "none"])

NamedGone(err) == err.rpc /\ err.code \in AlreadyGoneCodes

\* C2: when the leave request of an unsubscribe fails with an RPC error whose
\* code is one of the five 'already gone' codes, the command raises nothing
\* and returns left = true.
C2_GoneIsLeft ==
    \A err \in InvokeErrors :
       (LastIs("unsubscribe") /\ lastCall.invokeErr = Some(err) /\ NamedGone(err))
          => /\ lastCall.result.raised = None
             /\ lastCall.result.left # None
             /\ LastLeft.left = TRUE

\* C2 witness: an unsubscribe whose request failed with PEER_ID_INVALID has
\* completed.
C2_Witness ==
    /\ LastIs("unsubscribe")
    /\ lastCall.invokeErr = Some(RpcError(PeerIdInvalid))
    /\ Len(lastCall.requests) = 1

\* C3: an unsubscribe that meets any other error (an RPC error with another
\* code, or a fault that is no RPC error, at the leave request, at peer
\* resolution or for an unsupported peer) raises that same error, returns no
\* result, and issues no second request.
C3_OtherErrorsPropagate ==
    LastIs("unsubscribe") =>
       /\ \A err \in InvokeErrors :
             (lastCall.invokeErr = Some(err) /\ ~NamedGone(err))
                => /\ lastCall.result = Raised(err)
                   /\ Len(lastCall.requests) = 1
       /\ \A err \in ResolveErrors :
             (lastCall.resolveErr = Some(err) /\ ~NamedGone(err))
                => /\ lastCall.result = Raised(err)
                   /\ lastCall.requests = <<>>
       /\ (/\ lastCall.resolveErr = None
           /\ lastCall.id \in DOMAIN Directory
           /\ lastCall.requests = <<>>)
             => lastCall.result = Raised(UnsupportedPeer(Directory[lastCall.id]))

\* C3 witness: an unsubscribe whose request failed with an RPC error of
\* another code has completed.
C3_Witness ==
    /\ LastIs("unsubscribe")
    /\ lastCall.invokeErr = Some(RpcError(UserAlreadyParticipant))

\* The network reported an 'already gone' condition during the last command,
\* at peer resolution or at the request.
GoneReported ==
    \/ \E err \in ResolveErrors : lastCall.resolveErr = Some(err) /\ NamedGone(err)
    \/ \E err \in InvokeErrors : lastCall.invokeErr = Some(err) /\ NamedGone(err)

\* C4: an unsubscribe that follows an unsubscribe of the same identifier which
\* returned left = true, and during which the network reports the peer as
\* already gone (at peer resolution or at the leave request), returns
\* left = true and raises nothing.
C4_LeaveTwice ==
    (LastIs("unsubscribe") /\ lastCall.again # None /\ GoneReported)
       => /\ lastCall.result.raised = None
          /\ LastLeft.left = TRUE

\* C5: a subscribe whose peer resolution fails returns a failure (the
\* resolution error, never ok) and issues no join request.
C5_ResolveFailureNoJoin ==
    \A err \in ResolveErrors :
       (LastIs("subscribe") /\ lastCall.resolveErr = Some(err))
          => /\ lastCall.result = Raised(err)
             /\ lastCall.result.sub = None
             /\ lastCall.requests = <<>>

\* C5 witness: subscribe("@unknownhandle") has completed after a failed
\* resolution.
C5_Witness ==
    /\ LastIs("subscribe")
    /\ lastCall.id = "@unknownhandle"
    /\ lastCall.resolveErr = Some(Fault(<<"Cannot", "find", "any", "entity">>))

\* C6 as claimed: a subscribe that follows a successful subscribe of the same
\* identifier, and during which the network resolves the peer and either
\* accepts the join or reports 'already a participant', returns the same
\* successful result as the first.
C6_SubscribeTwiceAsClaimed ==
    (/\ LastIs("subscribe")
     /\ lastCall.again # None
     /\ lastCall.resolveErr = None
     /\ lastCall.invokeErr \in {None, Some(RpcError(UserAlreadyParticipant))})
       => lastCall.again = Some(lastCall.result)

\* C6 amended: such a second subscribe returns the same successful result
\* when the network resolves the peer and accepts the join request (or none
\* is needed); an 'already a participant' error of the join request is raised
\* to the caller.
C6_SubscribeTwice ==
    (LastIs("subscribe") /\ lastCall.again # None /\ lastCall.resolveErr = None)
       => /\ lastCall.invokeErr = None => lastCall.again = Some(lastCall.result)
          /\ lastCall.invokeErr = Some(RpcError(UserAlreadyParticipant))
                => lastCall.result = Raised(RpcError(UserAlreadyParticipant))

\* C6 witness: a second subscribe of a channel has completed after the
\* network reported 'already a participant'.
C6_Witness ==
    /\ LastIs("subscribe")
    /\ lastCall.again # None
    /\ lastCall.invokeErr = Some(RpcError(UserAlreadyParticipant))

\* C21: an unsubscribe whose peer resolves to a channel, a megagroup, a
\* legacy chat or an individual issues exactly one request, for that peer:
\* channels.LeaveChannel for the channel and the megagroup,
\* messages.DeleteChatUser for the chat, messages.DeleteHistory with
\* revoke = false for the individual; when the request succeeds the command
\* returns left = true with kind channel, megagroup, chat, user respectively.
C21_LeaveActionMatchesKind ==
    (/\ LastIs("unsubscribe")
     /\ lastCall.resolveErr = None
     /\ lastCall.id \in {"@news", "@group", "-5", "@alice"})
       => /\ Len(lastCall.requests) = 1
          /\ lastCall.requests[1] =
                (CASE lastCall.id = "@news" ->
                        [rpc |-> "channels.LeaveChannel", target |-> 42,
                         revoke |-> None]
                   [] lastCall.id = "@group" ->
                        [rpc |-> "channels.LeaveChannel", target |-> 43,
                         revoke |-> None]
                   [] lastCall.id = "-5" ->
                        [rpc |-> "messages.DeleteChatUser", target |-> 5,
                         revoke |-> None]
                   [] lastCall.id = "@alice" ->
                        [rpc |-> "messages.DeleteHistory", target |-> 7,
                         revoke |-> Some(FALSE)])
          /\ lastCall.invokeErr = None =>
                /\ lastCall.result.raised = None
                /\ lastCall.result.left =
                      Some([left |-> TRUE,
                            kind |-> CASE lastCall.id = "@news" -> "channel"
                                       [] lastCall.id = "@group" -> "megagroup"
                                       [] lastCall.id = "-5" -> "chat"
                                       [] lastCall.id = "@alice" -> "user"])

\* C21 witness: the dialog with an individual was left.
C21_Witness ==
    /\ LastIs("unsubscribe")
    /\ lastCall.id = "@alice"
    /\ lastCall.invokeErr = None
    /\ lastCall.result.left = Some([left |-> TRUE, kind |-> "user"])

\* C22: a subscribe whose peer resolves to a channel issues exactly one
\* request, channels.JoinChannel for that channel, and returns the record
\* only when the request succeeded; for a legacy chat or an individual it
\* issues no request; the command returns {ok: true, channel: record} with
\* the record of the peer.
C22_JoinDispatch ==
    (/\ LastIs("subscribe")
     /\ lastCall.resolveErr = None
     /\ lastCall.id \in {"@news", "@group", "-5", "@alice"})
       => /\ lastCall.id \in {"@news", "@group"} =>
                /\ lastCall.requests =
                      <<[rpc |-> "channels.JoinChannel",
                         target |-> IF lastCall.id = "@news" THEN 42 ELSE 43,
                         revoke |-> None]>>
                /\ lastCall.invokeErr # None => lastCall.result.sub = None
          /\ lastCall.id \in {"-5", "@alice"} =>
                /\ lastCall.requests = <<>>
                /\ lastCall.invokeErr = None
          /\ lastCall.invokeErr = None =>
                lastCall.result.sub =
                   Some([ok |-> TRUE,
                         channel |->
                            CASE lastCall.id = "@news" ->
                                    [tgId |-> "42", username |-> Some("news"),
                                     title |-> Some("News")]
                              [] lastCall.id = "@group" ->
                                    [tgId |-> "43", username |-> None,
                                     title |-> Some("Group")]
                              [] lastCall.id = "-5" ->
                                    [tgId |-> "chat:5", username |-> None,
                                     title |-> Some("Friends")]
                              [] lastCall.id = "@alice" ->
                                    [tgId |-> "user:7",
                                     username |-> Some("alice"),
                                     title |-> Some("Alice")]])

\* C22 witness: a subscribe to a legacy chat returned its description.
C22_Witness ==
    /\ LastIs("subscribe")
    /\ lastCall.id = "-5"
    /\ lastCall.result.sub # None
    /\ lastCall.requests = <<>>

\* The identifiers that resolve to a peer of a class neither join nor leave
\* knows.
Unrecognised ==
    {i \in DOMAIN Directory :
        Directory[i].cls \notin {"Channel", "ChannelForbidden", "Chat", "User"}}

\* C23: a subscribe or an unsubscribe whose peer resolves to an unrecognised
\* class raises the unsupported-peer error (unsubscribe never returns
\* left = true for it) and issues no request.
C23_UnsupportedPeerSurfaced ==
    (/\ lastCall.op \in Ops
     /\ lastCall.resolveErr = None
     /\ lastCall.id \in Unrecognised)
       => /\ lastCall.result.raised =
                Some([rpc |-> FALSE,
                      code |-> <<"Unsupported", "peer", "type",
                                 Directory[lastCall.id].cls>>])
          /\ lastCall.result.left = None
          /\ lastCall.result.sub = None
          /\ lastCall.requests = <<>>

\* C23 witness: an unsubscribe of a forbidden legacy chat has completed.
C23_Witness ==
    /\ LastIs("unsubscribe")
    /\ lastCall.id = "@stub"
    /\ lastCall.resolveErr = None

\* C28: an unsubscribe that absorbed an 'already gone' error reports the kind
\* a successful leave of the same peer reports: megagroup for a megagroup,
\* channel for any other channel, chat, user.
C28_SameKindOnBothPaths ==
    (/\ LastIs("unsubscribe")
     /\ lastCall.resolveErr = None
     /\ lastCall.invokeErr # None
     /\ lastCall.result.left # None)
       => LastLeft.kind =
             (CASE lastCall.id = "@group" -> "megagroup"
                [] lastCall.id = "-5" -> "chat"
                [] lastCall.id = "@alice" -> "user"
                [] OTHER -> "channel")

\* C30: a subscribe that returned {ok: true} with a bare numeric peer id
\* issued one channels.JoinChannel request for that peer, and the request
\* completed without error.
C30_BareIdMeansJoined ==
    (/\ LastIs("subscribe")
     /\ lastCall.result.sub # None
     /\ \E n \in {42, 43, 9, 5, 7, 8} :
           \A r \in lastCall.result.sub : r.channel.tgId = NumStr(n))
       => /\ Len(lastCall.requests) = 1
          /\ lastCall.requests[1].rpc = "channels.JoinChannel"
          /\ lastCall.requests[1].target = Directory[lastCall.id].id
          /\ lastCall.invokeErr = None

-----------------------------------------------------------------------------
\* ---- Claims about the session lifecycle ----------------------------------
ForwardSteps ==
    {<<"Uninitialized", "Bootstrapping">>, <<"Bootstrapping", "Connected">>,
     <<"Uninitialized", "Connected">>, <<"Connected", "ShuttingDown">>,
     <<"ShuttingDown", "Closed">>}

\* C7: every change of the session state is a step of
\* Uninitialized -> Bootstrapping -> Connected -> ShuttingDown -> Closed
\* (Bootstrapping skipped only on the resume path); Closed is never left, and
\* neither hook is entered a second time.
C7_StateOnlyAdvances ==
    [][/\ state' # state => <<state, state'>> \in ForwardSteps
       /\ (state = "Uninitialized" /\ state' = "Connected") => Saved # ""
       /\ state = "Closed" => state' = "Closed"
       /\ pcInit # "idle" => pcInit' # "idle"
       /\ pcDestroy # "idle" => pcDestroy' # "idle"]_vars

\* C7 witness: a session that went through Bootstrapping and Connected is
\* Closed.
C7_Witness ==
    /\ state = "Closed"
    /\ interactive
    /\ pcDestroy = "done"

\* C8: with a saved token the manager never performs the interactive exchange,
\* never is Bootstrapping and never prints a token; without one, it is
\* Connected only after the exchange was performed and the new token printed
\* (exactly once).
C8_StartupBranch ==
    /\ Saved # "" => /\ ~interactive
                     /\ surfaced = <<>>
                     /\ state # "Bootstrapping"
                     /\ pcInit # "starting"
    /\ Saved = "" => /\ pcInit # "connecting"
                     /\ state \in {"Connected", "ShuttingDown", "Closed"}
                           => interactive /\ surfaced = <<NewToken>>
                     /\ state \in {"Uninitialized", "Bootstrapping"}
                           => surfaced = <<>>

\* C8 witness: Connected after an interactive login, the token printed.
C8_Witness ==
    /\ cfgSession = None
    /\ state = "Connected"
    /\ interactive
    /\ surfaced = <<NewToken>>

\* C9: once the connection attempts of the startup have failed
\* ConnectionRetries (5) times, the init hook has failed and the startup is
\* aborted: the session is not (and never becomes) Connected and the command
\* channel does not serve; the hook does not fail on this account earlier.
C9_RetryExhaustionFatal ==
    /\ attempts <= ConnectionRetries
    /\ attempts = ConnectionRetries
          => /\ pcInit = "failed"
             /\ aborted
             /\ state \in {"Uninitialized", "Bootstrapping"}
             /\ ~serving
             /\ call.pc = "idle" /\ lastCall.op = "none"
    /\ (pcInit = "failed" /\ ~interactive) => attempts = ConnectionRetries

\* C9 witness: the resume path has used up its five attempts.
C9_Witness ==
    /\ attempts = ConnectionRetries
    /\ Saved # ""
    /\ aborted

\* C10: onModuleDestroy never reports an error: once it is over it has
\* completed normally, also without a client and when disconnect() threw.
C10_DestroyNeverThrows ==
    /\ destroyResult # "error"
    /\ pcDestroy = "done" => destroyResult = "ok"

\* C10 witness: shutdown is over after disconnect() threw.
C10_Witness ==
    /\ pcDestroy = "done"
    /\ discOutcome = "throws"

\* The delivered event i carries a message whose (channelId, messageId) pair
\* no earlier delivered event carried.
NewPair(i) ==
    /\ WellFormed(i)
    /\ \A j \in 1..(i - 1) :
          WellFormed(j) => PairOf(delivered[j]) # PairOf(delivered[i])

\* C13: a fault raised while one event is handled stays inside the callback:
\* nothing escapes to the transport, the fault is logged, the session stays
\* Connected with its transport up, and every event delivered with a new
\* (channelId, messageId) pair, also after a faulty one, is published.
C13_FaultStaysInHandler ==
    /\ escaped = 0
    /\ state = "Connected" /\ transport = "up" /\ transportHas
    /\ \A i \in 1..Len(delivered) :
          /\ ~WellFormed(i) => outcomes[i] = "crashed"
          /\ NewPair(i) => outcomes[i] = "published"
    /\ Len(published) = Cardinality({i \in 1..Len(delivered) : NewPair(i)})

\* C13 witness: a malformed event was delivered and logged, and two events
\* with new pairs delivered after it were published.
C13_Witness ==
    /\ Len(delivered) = 3
    /\ ~WellFormed(1)
    /\ errorLog = 1
    /\ NewPair(2) /\ NewPair(3)
    /\ Len(published) = 2

\* The payloads of the first occurrences of the (channelId, messageId) pairs
\* in a sequence of events, in the order of the sequence; pairs: the pairs
\* met so far.
RECURSIVE FirstOccurrences(_, _)
FirstOccurrences(evs, pairs) ==
    IF evs = <<>> THEN <<>>
    ELSE LET ev == Head(evs)
         IN IF ev.message = None
            THEN FirstOccurrences(Tail(evs), pairs)
            ELSE IF PairOf(ev) \in pairs
                 THEN FirstOccurrences(Tail(evs), pairs)
                 ELSE <<PayloadOf(CHOOSE m \in ev.message : TRUE)>>
                      \o FirstOccurrences(Tail(evs), pairs \cup {PairOf(ev)})

\* C15: the emit calls are, in order, the delivered events that carry a
\* message with the repetitions of a (channelId, messageId) pair removed
\* (first occurrence kept); and in every state each delivered event has been
\* handled to its end: it has its outcome, and each published one its mark.
C15_DeliveryOrderKept ==
    /\ published = FirstOccurrences(delivered, {})
    /\ Len(outcomes) = Len(delivered)
    /\ seen = {KeyOf(published[j]) : j \in 1..Len(published)}

\* C15 witness: three events with three pairs were published in the order of
\* their delivery, which is not the order of their channel ids.
C15_Witness ==
    /\ Len(published) = 3
    /\ published[1].channelId = "user:42"
    /\ published[2].channelId = "42"
    /\ published[3].channelId = "chat:42"

\* The payload the mapping is said to give for a message, written out.
ClaimedChannelId(peer) ==
    IF peer.id = None THEN "unknown"
    ELSE CASE peer.kind = "PeerChannel" /\ peer.id = Some(42) -> "42"
           [] peer.kind = "PeerChat" /\ peer.id = Some(5) -> "chat:5"
           [] peer.kind = "PeerUser" /\ peer.id = Some(7) -> "user:7"
           [] OTHER -> "unknown"

ClaimedDate(d) ==
    CASE d = None -> "1970-01-01T00:00:00.000Z"
      [] d = NumDate(0) -> "1970-01-01T00:00:00.000Z"
      [] d = NumDate(1700000000) -> "2023-11-14T22:13:20.000Z"
      [] OTHER -> (CHOOSE x \in d : TRUE).iso

ClaimedPayload(msg) ==
    [channelId |-> ClaimedChannelId(msg.peerId),
     messageId |-> IF msg.id = None THEN -1 ELSE CHOOSE n \in msg.id : TRUE,
     text      |-> IF msg.message = None THEN ""
                   ELSE CHOOSE t \in msg.message : TRUE,
     date      |-> ClaimedDate(msg.date)]

\* The number of emit calls made up to and including the i-th delivery.
PublishedUpTo(i) == Cardinality({j \in 1..i : outcomes[j] = "published"})

\* C16: no message makes the handler fault, and the payload of every emit
\* call is the claimed one for the message of its event: channelId the
\* decimal id of a channel peer, chat:<id>, user:<id>, or unknown for any
\* other peer (no peer, a null id, another kind of peer); messageId the id or
\* -1; text the text or the empty string; date the ISO form, the epoch for an
\* absent date.
C16_PayloadMapping ==
    /\ errorLog = 0 /\ escaped = 0
    /\ \A i \in 1..Len(delivered) :
          /\ outcomes[i] \in {"published", "dropped"}
          /\ outcomes[i] = "published" =>
                published[PublishedUpTo(i)] =
                   ClaimedPayload(CHOOSE m \in delivered[i].message : TRUE)

\* C16 witness: a message without peer and without id, one without text and
\* date, and one with a Date object were published.
C16_Witness ==
    /\ Len(published) = 3
    /\ published[1] = [channelId |-> "unknown", messageId |-> -1,
                       text |-> "hi", date |-> "2023-11-14T22:13:20.000Z"]
    /\ delivered[2].message =
          Some(Msg(Peer("PeerChannel", Some(42)), Some(8), None, None))
    /\ published[2] = [channelId |-> "42", messageId |-> 8, text |-> "",
                       date |-> "1970-01-01T00:00:00.000Z"]
    /\ published[3] = [channelId |-> "42", messageId |-> 9, text |-> "hi",
                       date |-> "2024-02-29T12:00:00.000Z"]

\* C14: publishing is fire-and-forget: every emit call hands its message over
\* and returns, whether the broker can be reached or not and whatever became
\* of the earlier messages; no event that carries a message faults, nothing
\* is logged as a fault and nothing escapes, also after a publish failed; the
\* event is marked as processed in the same step.
C14_FireAndForget ==
    /\ escaped = 0
    /\ errorLog = 0
    /\ Len(outbox) = Len(published)
    /\ \A i \in 1..Len(delivered) :
          /\ outcomes[i] # "crashed"
          /\ NewPair(i) => outcomes[i] = "published"
    /\ Cardinality(seen) = Len(published)

\* C14 witness: the first publish failed, the second event was handled while
\* the broker was unreachable and is still unacknowledged, and a third event
\* was handled and handed over after that.
C14_Witness ==
    /\ Len(outbox) = 3
    /\ outbox[1].fate = "failed"
    /\ ~outbox[2].up /\ outbox[2].fate = "pending"
    /\ outbox[3].up
    /\ outcomes = <<"published", "published", "published">>

\* ---- Claims about fetchPosts ----------------------------------------------
LastDto == OrElse(lastCall.dto, Dto("", None, None))

LastPage ==
    OrElse(lastCall.result.page, [list |-> <<>>, nextOffsetId |-> None])

\* The raw page the network answered the last fetchPosts command with.
LastRaw ==
    Page(History(Directory[lastCall.id]), lastCall.requests[1].limit,
         lastCall.requests[1].offsetId)

FetchedOk ==
    /\ LastIs("fetchPosts")
    /\ lastCall.resolveErr = None
    /\ lastCall.invokeErr = None

\* The dedup keys of the delivered events that carry a message.
DeliveredKeys ==
    {PairOf(delivered[i])[1] \o ":" \o NumStr(PairOf(delivered[i])[2]) :
        i \in {k \in 1..Len(delivered) : WellFormed(k)}}

\* C17: fetchPosts commands, whatever their arguments and outcomes, leave the
\* store and the emit calls alone: in every state the store holds exactly the
\* keys of the delivered events and there is exactly one emit call per key,
\* so an event whose message was fetched before is still published when it
\* is first delivered, and nothing is published for a message that was only
\* fetched.
C17_FetchIsPurePull ==
    /\ seen = DeliveredKeys
    /\ Len(published) = Cardinality(DeliveredKeys)
    /\ Len(outbox) = Len(published)
    /\ \A i \in 1..Len(delivered) : NewPair(i) => outcomes[i] = "published"

\* C17 witness: message 7 of channel 42 was fetched by the last command, and
\* its real-time event, the only event delivered, was published.
C17_Witness ==
    /\ FetchedOk
    /\ \E k \in 1..Len(LastPage.list) : LastPage.list[k].id = 7
    /\ Len(delivered) = 1
    /\ PairOf(delivered[1]) = <<"42", 7>>
    /\ outcomes = <<"published">>

\* C18: a fetchPosts command whose peer resolves sends one history request
\* with the given limit and offsetId, 20 and 0 where they are omitted; when
\* the request succeeds, list holds the concrete messages of the raw page,
\* all of them, no other, in the order of the page, and nextOffsetId is the
\* id of the last element of list, absent for an empty list.
C18_FetchPostsPage ==
    (LastIs("fetchPosts") /\ lastCall.resolveErr = None) =>
       /\ Len(lastCall.requests) = 1
       /\ lastCall.requests[1].limit =
             (IF LastDto.limit = None THEN 20
              ELSE CHOOSE n \in LastDto.limit : TRUE)
       /\ lastCall.requests[1].offsetId =
             (IF LastDto.offsetId = None THEN 0
              ELSE CHOOSE n \in LastDto.offsetId : TRUE)
       /\ lastCall.invokeErr = None =>
             LET raw  == LastRaw
                 list == LastPage.list
                 idx  == {k \in 1..Len(raw) : raw[k].cls = "Message"}
             IN /\ lastCall.result.raised = None
                /\ lastCall.result.page # None
                /\ Len(list) = Cardinality(idx)
                /\ \A k \in idx :
                      LET r == Cardinality({j \in idx : j <= k})
                      IN /\ list[r].id = raw[k].id
                         /\ list[r].message =
                               (IF raw[k].message = None THEN ""
                                ELSE CHOOSE t \in raw[k].message : TRUE)
                /\ LastPage.nextOffsetId =
                      (IF list = <<>> THEN None
                       ELSE Some(list[Len(list)].id))

\* C18 witness: fetchPosts of the group without limit and offsetId was
\* answered with a page that holds a service message between two concrete
\* ones.
C18_Witness ==
    /\ FetchedOk
    /\ lastCall.id = "@group"
    /\ LastDto.limit = None /\ LastDto.offsetId = None
    /\ Len(LastRaw) = 3
    /\ Len(LastPage.list) = 2
    /\ LastPage.nextOffsetId = Some(7)

\* C19: a fetchPosts command with limit n from the start of a history that
\* holds more than n messages returns exactly n items and the id of the n-th
\* as nextOffsetId.
C19_LimitGivesFullPage ==
    \A n \in {1, 2} :
       (/\ FetchedOk
        /\ LastDto.limit = Some(n)
        /\ LastDto.offsetId \in {None, Some(0)}
        /\ Len(History(Directory[lastCall.id])) > n)
          => /\ Len(LastPage.list) = n
             /\ LastPage.nextOffsetId = Some(LastPage.list[n].id)

\* C20: once the pipeline has deregistered its handler, an event that the
\* transport still hands to the callback changes nothing: no emit call is
\* made and the store stays as it is.
C20_DeregisteredIsNoOp ==
    [][(bound /\ ~listeners /\ delivered' # delivered)
          => (published' = published /\ seen' = seen)]_vars

\* C12: a health command never raises: it returns {status: 'ok'} when the
\* identity round trip ended without error and {status: 'down'} when it ended
\* with any error, whatever the session state.
C12_HealthNeverThrows ==
    LastIs("health") =>
       /\ lastCall.result.raised = None
       /\ lastCall.result.status =
             Some([status |-> IF lastCall.invokeErr = None THEN "ok" ELSE "down"])

\* C12 witness: a health command answered after the round trip failed while
\* the manager was shutting down.
C12_Witness ==
    /\ LastIs("health")
    /\ lastCall.invokeErr = Some(Fault(<<"TIMEOUT">>))
    /\ state \in {"ShuttingDown", "Closed"}

\* C11: whenever a shutdown signal reaches the process while the session is
\* Connected, the manager's shutdown hook is eventually entered and the
\* session eventually is Closed with the transport disconnected.
C11_SignalClosesSession ==
    (signalled /\ state = "Connected")
       ~> (pcDestroy # "idle" /\ state = "Closed" /\ transport = "closed")

-----------------------------------------------------------------------------
\* ---- Claims about the order of marking and publishing --------------------
\* The dedup key of a payload, as a string.
PublishedKey(j) ==
    published[j].channelId \o ":" \o NumStr(published[j].messageId)

\* C25: whenever the handler calls the publisher for an event, the store
\* already holds the event's dedup key at the moment of the call.
C25_MarkedBeforePublish ==
    /\ Len(emitSaw) = Len(published)
    /\ \A j \in 1..Len(emitSaw) : emitSaw[j]

-----------------------------------------------------------------------------
\* ---- Claims about false duplicates ---------------------------------------
MsgOf(i) == CHOOSE m \in delivered[i].message : TRUE

\* A peer the pipeline recognises: a channel, chat or user peer with an id.
Recognised(peer) ==
    peer.kind \in {"PeerChannel", "PeerChat", "PeerUser"} /\ peer.id # None

\* Two peers the pipeline cannot tell apart: the same recognised peer, or two
\* peers that are both unrecognised.
SameSource(a, b) == IF Recognised(a) THEN a = b ELSE ~Recognised(b)

IdOrMinusOne(m) == IF m.id = None THEN -1 ELSE CHOOSE n \in m.id : TRUE

\* C27 as claimed: an event is dropped only if an earlier published event had
\* the same peer (kind and id) and the same message id.
C27_NoFalseDuplicatesAsClaimed ==
    \A i \in 1..Len(delivered) :
       (WellFormed(i) /\ outcomes[i] = "dropped") =>
          \E j \in 1..(i - 1) :
             /\ WellFormed(j)
             /\ outcomes[j] = "published"
             /\ MsgOf(j).peerId = MsgOf(i).peerId
             /\ MsgOf(j).id = MsgOf(i).id

\* C27: an event is dropped only if an earlier published event came from the
\* same recognised peer, or both came from unrecognised peers (all of which
\* share the channel id 'unknown'), and had the same message id, an absent
\* id counting as -1.
C27_NoFalseDuplicates ==
    \A i \in 1..Len(delivered) :
       (WellFormed(i) /\ outcomes[i] = "dropped") =>
          \E j \in 1..(i - 1) :
             /\ WellFormed(j)
             /\ outcomes[j] = "published"
             /\ SameSource(MsgOf(j).peerId, MsgOf(i).peerId)
             /\ IdOrMinusOne(MsgOf(j)) = IdOrMinusOne(MsgOf(i))

\* C27 witness: an event of one unrecognised peer was dropped after an event
\* of another unrecognised peer with the same message id was published, and
\* an event of a recognised peer with that message id was published too.
C27_Witness ==
    /\ Len(delivered) = 3
    /\ outcomes = <<"published", "dropped", "published">>
    /\ MsgOf(1).peerId = Peer("undefined", None)
    /\ MsgOf(2).peerId = Peer("InputPeerSelf", None)
    /\ MsgOf(3).peerId = Peer("PeerChannel", Some(42))
    /\ MsgOf(1).id = Some(7) /\ MsgOf(2).id = Some(7) /\ MsgOf(3).id = Some(7)

-----------------------------------------------------------------------------
\* ---- Claims about subscription records and events ------------------------
\* C29: when a subscribe has returned a record for a channel, a legacy chat
\* or an individual, the published events whose channelId equals the
\* record's tgId are exactly the events of that peer's messages.
C29_RecordMatchesEvents ==
    (/\ LastIs("subscribe")
     /\ lastCall.result.sub # None
     /\ lastCall.id \in {"@news", "@group", "-5", "@alice"})
       => LET record == (CHOOSE r \in lastCall.result.sub : TRUE).channel
          IN \A i \in 1..Len(delivered) :
                (WellFormed(i) /\ outcomes[i] = "published") =>
                   (published[PublishedUpTo(i)].channelId = record.tgId
                      <=> MsgOf(i).peerId = PeerOf(Directory[lastCall.id]))

\* C29 witness: a subscribe to a legacy chat returned, and an event of that
\* chat and an event of another chat were published.
C29_Witness ==
    /\ LastIs("subscribe")
    /\ lastCall.id = "-5"
    /\ lastCall.result.sub # None
    /\ Len(published) = 2
    /\ published[1].channelId = "chat:5"
    /\ published[2].channelId = "chat:42"

-----------------------------------------------------------------------------
\* ---- Claims about commands interleaved with ingestion --------------------
\* C24: whatever commands are started, suspended, resumed and completed
\* between and around the deliveries of events, the session stays Connected
\* with its transport up, the store holds exactly the keys of the delivered
\* events, and the emit calls are the ones the delivered events give with no
\* command at all: the first occurrence of each pair, in delivery order.
C24_CommandsInterleaveSafely ==
    /\ state = "Connected"
    /\ transport = "up"
    /\ seen = DeliveredKeys
    /\ published = FirstOccurrences(delivered, {})
    /\ escaped = 0 /\ errorLog = 0

\* C24 witness: an unsubscribe is waiting for its leave request and a
\* fetchPosts for its history page, a health command has completed, and
\* meanwhile two events were published and a redelivery was dropped.
C24_Witness ==
    /\ parked.op = "unsubscribe" /\ parked.pc = "invoking"
    /\ call.op = "fetchPosts" /\ call.pc = "fetching"
    /\ lastCall.op = "health"
    /\ outcomes = <<"published", "dropped", "published">>

-----------------------------------------------------------------------------
\* ---- Claims about paging through a history -------------------------------
\* The concrete messages the network still holds beyond the cursor the last
\* fetchPosts command asked from.
ConcreteBeyondCursor ==
    LET o == lastCall.requests[1].offsetId
    IN Real(SelectSeq(History(Directory[lastCall.id]),
                      LAMBDA m : o = 0 \/ m.id < o))

\* C31: a fetchPosts command that succeeded returns no nextOffsetId only when
\* the history holds no concrete message beyond the requested offsetId, so a
\* caller that pages until nextOffsetId is absent has missed none.
C31_AbsentCursorMeansEnd ==
    (FetchedOk /\ LastPage.nextOffsetId = None)
       => ConcreteBeyondCursor = <<>>


====
